---- MODULE Spec2Model ----
(***************************************************************************)
(* A model of the OCR_VoiceChat middleware:                                *)
(*   - ChatHistory (chat_history.py): one JSON file per session, appended  *)
(*     by read-modify-write, read with corruption absorbed, removed by     *)
(*     clear_session, summarised by get_session_stats;                     *)
(*   - DocumentRetriever (document_retriever.py) and the /upload and /ask  *)
(*     handlers (fastAPI.py): the in-memory corpus, its embeddings and the *)
(*     cosine top-k selection.                                             *)
(* ChatHistory's coroutines are cut at their awaits: the code between two  *)
(* awaits is one step of the event loop, and the file operation of an      *)
(* await happens in that step.                                             *)
(***************************************************************************)
EXTENDS Integers, Sequences, FiniteSets, TLC

VARIABLES
    files,      \* the storage directory: path -> NoFile or the file's text
    calls,      \* the ChatHistory coroutines suspended at an await
    now,        \* the last reading of datetime.utcnow()
    nextId,     \* stands for uuid.uuid4(): the next fresh id
    last,       \* what the step just taken returned to its caller (NoOutcome
                \* when the step returned nothing)
    returned,   \* per session, the messages add_message has returned since the
                \* session was last cleared, in return order
    epoch,      \* per session, the clear_session calls that removed a record
    documents,            \* retriever.documents
    document_embeddings,  \* retriever.document_embeddings
    db,                   \* the rows of the document_chunks table
    temp_file,            \* whether the handler's temp_<filename> exists
    lastR                 \* the most recent retriever or handler call and its result

chatVars == <<files, calls, now, nextId, last, returned, epoch>>

retrVars == <<documents, document_embeddings, db, temp_file, lastR>>

vars == <<files, calls, now, nextId, last, returned, epoch,
          documents, document_embeddings, db, temp_file, lastR>>

(***************************************************************************)
(* Bounds of the model.                                                    *)
(***************************************************************************)
MaxMessages == 3    \* add_message calls in one behaviour
MaxInFlight == 2    \* coroutines suspended at the same time

Sessions == {"s1", "s2"}

(***************************************************************************)
(* Python values.  None and dict are tagged so that they compare.          *)
(***************************************************************************)
PyNone == [t |-> "None", v |-> {}]
PyDict(pairs) == [t |-> "dict", v |-> pairs]
EmptyDict == PyDict({})

\* bool(x) of an Optional[Dict]
Truthy(x) == x.t = "dict" /\ x.v # {}

\* `x or {}`
OrEmptyDict(x) == IF Truthy(x) THEN x ELSE EmptyDict

\* The arguments callers pass to add_message(role, content, document_context, metadata).
AddInputs ==
    { [role |-> "user", content |-> "hello",
       document_context |-> PyNone, metadata |-> PyNone],
      [role |-> "assistant", content |-> "hi there",
       document_context |-> EmptyDict, metadata |-> PyDict({<<"k", "v">>})],
      [role |-> "system", content |-> "hello",
       document_context |-> PyDict({<<"doc", "a.pdf">>}), metadata |-> PyNone] }

NoMessage ==
    [id |-> 0, timestamp |-> 0, role |-> "", content |-> "",
     document_context |-> PyNone, metadata |-> PyNone]

\* The dict built at the top of add_message.
NewMessage(id, ts, in) ==
    [id |-> id, timestamp |-> ts, role |-> in.role, content |-> in.content,
     document_context |-> OrEmptyDict(in.document_context),
     metadata |-> OrEmptyDict(in.metadata)]

(***************************************************************************)
(* The file system and the JSON text of a record.                          *)
(* A text is [kind, messages]; kind says what json.loads makes of it:      *)
(*   "empty"              zero bytes (a file just opened with 'w')         *)
(*   "garbage"            text that is not JSON                            *)
(*   "non_object"         JSON that is not an object: [], null, 3, "x"     *)
(*   "object_no_messages" a JSON object without the key "messages"         *)
(*   "messages_not_list"  {"messages": v} with v not a list                *)
(*   "messages"           {"messages": [...]}, as add_message writes it    *)
(***************************************************************************)
NoFile == [kind |-> "absent", messages |-> <<>>]
Text(kind) == [kind |-> kind, messages |-> <<>>]
EmptyText == Text("empty")
GarbageText == Text("garbage")

CorruptKinds ==
    {"garbage", "non_object", "object_no_messages", "messages_not_list"}

\* A faulty variant: every session is kept in the same file.
get_session_path_shared(session_id) == "chat_history.json"

get_session_path(session_id) == session_id \o ".json"

Paths == {get_session_path(s) : s \in Sessions}

exists(path) == files[path] # NoFile

\* json encoding of one value of a message
JsonOfValue(x) ==
    IF x.t = "None" THEN [t |-> "null", v |-> {}] ELSE [t |-> "object", v |-> x.v]

\* A faulty variant: an empty JSON object is read back as None.
ValueOfJsonEmptyAsNone(j) ==
    IF j.t = "null" \/ j.v = {} THEN PyNone ELSE PyDict(j.v)

ValueOfJson(j) ==
    IF j.t = "null" THEN PyNone ELSE PyDict(j.v)

JsonOfMessage(m) ==
    [id |-> m.id, timestamp |-> m.timestamp, role |-> m.role, content |-> m.content,
     document_context |-> JsonOfValue(m.document_context),
     metadata |-> JsonOfValue(m.metadata)]

MessageOfJson(j) ==
    [id |-> j.id, timestamp |-> j.timestamp, role |-> j.role, content |-> j.content,
     document_context |-> ValueOfJson(j.document_context),
     metadata |-> ValueOfJson(j.metadata)]

\* A faulty variant: only the new message is written, not the whole list.
DumpsNewestOnly(messages) ==
    [kind |-> "messages",
     messages |-> IF messages = <<>> THEN <<>>
                  ELSE <<JsonOfMessage(messages[Len(messages)])>>]

\* json.dumps({"messages": messages}, indent=2)
Dumps(messages) ==
    [kind |-> "messages",
     messages |-> [i \in 1..Len(messages) |-> JsonOfMessage(messages[i])]]

(***************************************************************************)
(* What get_messages hands back: a list, a value that is not a list, or an *)
(* exception that leaves the coroutine.                                    *)
(***************************************************************************)
ListResult(msgs) == [kind |-> "list", msgs |-> msgs, exc |-> ""]
NonListResult == [kind |-> "nonlist", msgs |-> <<>>, exc |-> ""]
Raised(exc) == [kind |-> "raise", msgs |-> <<>>, exc |-> exc]

\* Lines 78-84: read the file, json.loads, data.get("messages", []), with
\* JSONDecodeError and FileNotFoundError caught.
ReadAndParse(content) ==
    CASE content.kind = "absent" -> ListResult(<<>>)
      [] content.kind \in {"empty", "garbage"} -> ListResult(<<>>)
      [] content.kind = "non_object" -> Raised("AttributeError")
      [] content.kind = "object_no_messages" -> ListResult(<<>>)
      [] content.kind = "messages_not_list" -> NonListResult
      [] OTHER ->
           ListResult([i \in 1..Len(content.messages) |->
                          MessageOfJson(content.messages[i])])

\* get_messages run without interruption on the present files.
get_messages(session_id) ==
    IF ~exists(get_session_path(session_id))
    THEN ListResult(<<>>)
    ELSE ReadAndParse(files[get_session_path(session_id)])

(***************************************************************************)
(* get_session_stats, lines 113-122, on a list of messages.                *)
(***************************************************************************)
RECURSIVE CountRole(_, _)
CountRole(messages, role) ==
    IF messages = <<>> THEN 0
    ELSE (IF Head(messages).role = role THEN 1 ELSE 0) + CountRole(Tail(messages), role)

\* A faulty variant: has_document_context tests the key, not the value.
StatsOfKeyPresence(messages) ==
    [total_messages |-> Len(messages),
     user_messages |-> CountRole(messages, "user"),
     assistant_messages |-> CountRole(messages, "assistant"),
     has_document_context |-> messages # <<>>,
     last_message_at |->
        IF messages # <<>> THEN <<messages[Len(messages)].timestamp>> ELSE <<>>]

\* None is <<>>, a timestamp t is <<t>>
StatsOf(messages) ==
    [total_messages |-> Len(messages),
     user_messages |-> CountRole(messages, "user"),
     assistant_messages |-> CountRole(messages, "assistant"),
     has_document_context |->
        \E i \in 1..Len(messages) : Truthy(messages[i].document_context),
     last_message_at |->
        IF messages # <<>> THEN <<messages[Len(messages)].timestamp>> ELSE <<>>]

NoStats == StatsOf(<<>>)

(***************************************************************************)
(* Calls.                                                                  *)
(***************************************************************************)
\* A coroutine suspended at an await.
\*   pc "read"   at `async with aiofiles.open(file_path, 'r')` of get_messages
\*   pc "open_w" at `async with aiofiles.open(file_path, 'w')` of add_message
\*   pc "write"  at `await f.write(...)`, the file open and truncated
\* unlinked: the file this coroutine holds open has been removed from the directory.
Suspended(op, pc, sid, args, message, messages) ==
    [op |-> op, pc |-> pc, sid |-> sid, args |-> args, message |-> message,
     messages |-> messages, unlinked |-> FALSE]

NoArgs == [role |-> "", content |-> "", document_context |-> PyNone, metadata |-> PyNone]

\* What a completed call returned (kind "ok"), or that it raised; args are
\* the arguments add_message was called with.
Outcome(op, sid, kind, args, msgs, msg, flag, stats) ==
    [op |-> op, sid |-> sid, kind |-> kind, args |-> args, msgs |-> msgs,
     msg |-> msg, flag |-> flag, stats |-> stats]

NoOutcome == Outcome("none", "", "ok", NoArgs, <<>>, NoMessage, FALSE, NoStats)

CanSuspend == Cardinality(calls) < MaxInFlight

ChatInit ==
    /\ files = [p \in Paths |-> NoFile]
    /\ calls = {}
    /\ now = 0
    /\ nextId = 1
    /\ last = NoOutcome
    /\ returned = [s \in Sessions |-> <<>>]
    /\ epoch = [s \in Sessions |-> 0]

\* The readings datetime.utcnow() can give after the reading `t`: the clock
\* has stood still or has advanced.
ClockAfter(t) == {t, t + 1}

\* add_message up to its first await: the message is built with the clock's
\* reading `utcnow`, get_messages is entered and os.path.exists is tested.
\* With no file get_messages returns [] at once and the coroutine suspends
\* opening the file for writing; otherwise it suspends opening it for reading.
add_message(session_id, in, utcnow) ==
    /\ CanSuspend
    /\ nextId <= MaxMessages
    /\ utcnow \in ClockAfter(now)
    /\ LET message == NewMessage(nextId, utcnow, in)
       IN  calls' = calls \cup
              {IF exists(get_session_path(session_id))
               THEN Suspended("add", "read", session_id, in, message, <<>>)
               ELSE Suspended("add", "open_w", session_id, in, message, <<message>>)}
    /\ nextId' = nextId + 1
    /\ now' = utcnow
    /\ last' = NoOutcome
    /\ UNCHANGED <<files, returned, epoch>>
    /\ UNCHANGED retrVars

\* add_message resumes in get_messages: the file is read and parsed, the
\* message appended to the list.  An exception of get_messages, or of
\* .append on a value that is no list, leaves add_message.
add_message_read(c) ==
    /\ c \in calls /\ c.op = "add" /\ c.pc = "read"
    /\ LET r == ReadAndParse(files[get_session_path(c.sid)])
       IN  IF r.kind = "list"
           THEN /\ calls' = (calls \ {c}) \cup
                      {[c EXCEPT !.pc = "open_w",
                                 !.messages = Append(r.msgs, c.message)]}
                /\ last' = NoOutcome
           ELSE /\ calls' = calls \ {c}
                /\ last' = Outcome("add_message", c.sid, "raise", c.args, <<>>,
                                   NoMessage, FALSE, NoStats)
    /\ UNCHANGED <<files, now, nextId, returned, epoch>>
    /\ UNCHANGED retrVars

\* aiofiles.open(file_path, 'w'): the file is created or truncated.
add_message_open(c) ==
    /\ c \in calls /\ c.op = "add" /\ c.pc = "open_w"
    /\ files' = [files EXCEPT ![get_session_path(c.sid)] = EmptyText]
    /\ calls' = (calls \ {c}) \cup {[c EXCEPT !.pc = "write", !.unlinked = FALSE]}
    /\ last' = NoOutcome
    /\ UNCHANGED <<now, nextId, returned, epoch>>
    /\ UNCHANGED retrVars

\* The texts a write of `text` at offset 0 can leave in a file holding `old`:
\* on an empty file the text itself; over what another writer has put there
\* since, the text, or (when the older text is longer) the text followed by
\* the older text's tail, which is not JSON.
Overwrite(old, text) ==
    IF old.kind = "empty" THEN {text} ELSE {text, GarbageText}

\* f.write(json.dumps({"messages": messages}, indent=2)), the file closed,
\* and `return message`.
add_message_write(c) ==
    /\ c \in calls /\ c.op = "add" /\ c.pc = "write"
    /\ IF c.unlinked
       THEN files' = files
       ELSE \E text \in Overwrite(files[get_session_path(c.sid)], Dumps(c.messages)) :
               files' = [files EXCEPT ![get_session_path(c.sid)] = text]
    /\ calls' = calls \ {c}
    /\ last' = Outcome("add_message", c.sid, "ok", c.args, <<>>, c.message,
                       FALSE, NoStats)
    /\ returned' = [returned EXCEPT ![c.sid] = Append(@, c.message)]
    /\ UNCHANGED <<now, nextId, epoch>>
    /\ UNCHANGED retrVars

\* What get_messages' caller sees of a result.
OutcomeOfRead(op, sid, r) ==
    Outcome(op, sid, IF r.kind = "list" THEN "ok" ELSE r.kind, NoArgs, r.msgs,
            NoMessage, FALSE, NoStats)

\* get_messages called on its own, up to its first await.
get_messages_call(session_id) ==
    /\ IF exists(get_session_path(session_id))
       THEN /\ CanSuspend
            /\ calls' = calls \cup
                  {Suspended("get", "read", session_id, NoArgs, NoMessage, <<>>)}
            /\ last' = NoOutcome
       ELSE /\ calls' = calls
            /\ last' = OutcomeOfRead("get_messages", session_id, ListResult(<<>>))
    /\ UNCHANGED <<files, now, nextId, returned, epoch>>
    /\ UNCHANGED retrVars

get_messages_read(c) ==
    /\ c \in calls /\ c.op = "get" /\ c.pc = "read"
    /\ calls' = calls \ {c}
    /\ last' = OutcomeOfRead("get_messages", c.sid,
                             ReadAndParse(files[get_session_path(c.sid)]))
    /\ UNCHANGED <<files, now, nextId, returned, epoch>>
    /\ UNCHANGED retrVars

\* get_session_stats on the result of its get_messages: the statistics of a
\* list; iterating a value that is no list of messages raises.
StatsOutcome(sid, r) ==
    IF r.kind = "list"
    THEN Outcome("get_session_stats", sid, "ok", NoArgs, r.msgs, NoMessage, FALSE,
                 StatsOf(r.msgs))
    ELSE Outcome("get_session_stats", sid, "raise", NoArgs, <<>>, NoMessage, FALSE,
                 NoStats)

get_session_stats(session_id) ==
    /\ IF exists(get_session_path(session_id))
       THEN /\ CanSuspend
            /\ calls' = calls \cup
                  {Suspended("stats", "read", session_id, NoArgs, NoMessage, <<>>)}
            /\ last' = NoOutcome
       ELSE /\ calls' = calls
            /\ last' = StatsOutcome(session_id, ListResult(<<>>))
    /\ UNCHANGED <<files, now, nextId, returned, epoch>>
    /\ UNCHANGED retrVars

get_session_stats_read(c) ==
    /\ c \in calls /\ c.op = "stats" /\ c.pc = "read"
    /\ calls' = calls \ {c}
    /\ last' = StatsOutcome(c.sid, ReadAndParse(files[get_session_path(c.sid)]))
    /\ UNCHANGED <<files, now, nextId, returned, epoch>>
    /\ UNCHANGED retrVars

\* A faulty variant: clear_session reports success whether or not a file was there.
clear_session_always_true(session_id) ==
    /\ files' = [files EXCEPT ![get_session_path(session_id)] = NoFile]
    /\ calls' = {IF c.sid = session_id /\ c.pc = "write"
                 THEN [c EXCEPT !.unlinked = TRUE] ELSE c : c \in calls}
    /\ last' = Outcome("clear_session", session_id, "ok", NoArgs, <<>>,
                       NoMessage, TRUE, NoStats)
    /\ returned' = [returned EXCEPT ![session_id] = <<>>]
    /\ epoch' = [epoch EXCEPT ![session_id] =
                    IF exists(get_session_path(session_id)) THEN @ + 1 ELSE @]
    /\ UNCHANGED <<now, nextId>>
    /\ UNCHANGED retrVars

\* A faulty variant: clear_session empties the file instead of removing it.
clear_session_truncate(session_id) ==
    /\ IF exists(get_session_path(session_id))
       THEN /\ files' = [files EXCEPT ![get_session_path(session_id)] = EmptyText]
            /\ last' = Outcome("clear_session", session_id, "ok", NoArgs, <<>>,
                               NoMessage, TRUE, NoStats)
            /\ returned' = [returned EXCEPT ![session_id] = <<>>]
            /\ epoch' = [epoch EXCEPT ![session_id] = @ + 1]
       ELSE /\ files' = files
            /\ last' = Outcome("clear_session", session_id, "ok", NoArgs, <<>>,
                               NoMessage, FALSE, NoStats)
            /\ returned' = returned
            /\ epoch' = epoch
    /\ UNCHANGED <<calls, now, nextId>>
    /\ UNCHANGED retrVars

\* clear_session has no await: it runs in one step.  A coroutine holding the
\* removed file open for writing keeps writing to the unlinked file.
clear_session(session_id) ==
    /\ IF exists(get_session_path(session_id))
       THEN /\ files' = [files EXCEPT ![get_session_path(session_id)] = NoFile]
            /\ calls' = {IF c.sid = session_id /\ c.pc = "write"
                         THEN [c EXCEPT !.unlinked = TRUE] ELSE c : c \in calls}
            /\ last' = Outcome("clear_session", session_id, "ok", NoArgs, <<>>,
                               NoMessage, TRUE, NoStats)
            /\ returned' = [returned EXCEPT ![session_id] = <<>>]
            /\ epoch' = [epoch EXCEPT ![session_id] = @ + 1]
       ELSE /\ files' = files
            /\ calls' = calls
            /\ last' = Outcome("clear_session", session_id, "ok", NoArgs, <<>>,
                               NoMessage, FALSE, NoStats)
            /\ returned' = returned
            /\ epoch' = epoch
    /\ UNCHANGED <<now, nextId>>
    /\ UNCHANGED retrVars

\* Outside the program: a session's record is replaced by text that is not a
\* serialized message list.
CorruptRecord(session_id, kind) ==
    /\ exists(get_session_path(session_id))
    /\ files' = [files EXCEPT ![get_session_path(session_id)] = Text(kind)]
    /\ last' = NoOutcome
    /\ UNCHANGED <<calls, now, nextId, returned, epoch>>
    /\ UNCHANGED retrVars

\* The process stops and is started again: every suspended coroutine is gone
\* and the files stay as they are; a record whose writer was stopped inside
\* f.write may hold a part of the text, which is not JSON.
Crash ==
    /\ calls # {}
    /\ calls' = {}
    /\ \E torn \in SUBSET {get_session_path(c.sid) :
                             c \in {w \in calls : w.op = "add" /\ w.pc = "write"
                                                     /\ ~w.unlinked}} :
          files' = [p \in Paths |-> IF p \in torn THEN GarbageText ELSE files[p]]
    /\ last' = NoOutcome
    /\ UNCHANGED <<now, nextId, returned, epoch>>
    /\ UNCHANGED retrVars

(***************************************************************************)
(* The retriever: chunk texts, embeddings and cosine scores.               *)
(***************************************************************************)
MaxRows == 2    \* rows the document_chunks table can hold
MaxChunks == 3  \* chunks of a corpus handed to the scorer
MaxK == 4       \* the largest k asked of SimpleRetriever.retrieve

\* Chunk texts.  "p1", "p2", "p3", "p4" are prose of more than 30 characters,
\* " p1 " is "p1" with white space around it, "art" is a long chunk holding
\* the marker "OCRPageObj", "sh" has at most 30 characters, "  " is blank.
ChunkTexts == {"p1", "p2", "p3", " p1 ", "art", "sh", "  "}

\* The chunks callers hand to add_documents.
AddDocumentsInputs ==
    {<<>>, <<"  ">>, <<"p1", "p2">>, <<" p1 ", "  ", "art">>, <<"p2", "art", "p3">>,
     <<"art", "sh">>}

\* What OCR and chunk_text make of an uploaded file: OCR fails, or gives
\* blank text, or text that chunk_text splits into raw_chunks.
Uploads ==
    {[ocr |-> "fail", raw_chunks |-> <<>>],
     [ocr |-> "blank", raw_chunks |-> <<>>],
     [ocr |-> "text", raw_chunks |-> <<"art", "sh">>],
     [ocr |-> "text", raw_chunks |-> <<"p1", "art", "p2">>],
     [ocr |-> "text", raw_chunks |-> <<" p1 ", "p3">>],
     [ocr |-> "text", raw_chunks |-> <<"p3">>]}

\* Where an upload's collaborators fail: nowhere, in the first encode, in the
\* database commit, in the encode of the reload; "short" is the first encode
\* returning one embedding fewer than it was given chunks.
Faults == {"none", "encode", "db", "reload", "short"}

\* chunk.strip()
Strip(text) ==
    CASE text = " p1 " -> "p1"
      [] text = "  " -> ""
      [] OTHER -> text

\* is_text_chunk of /upload and /ask: a str whose stripped length exceeds 30
\* and that holds none of the markers.
is_text_chunk(chunk) == Strip(chunk) \in {"p1", "p2", "p3"}

\* embedding_model.encode: a function of the text.
Embed(text) ==
    CASE text \in {"p1", " p1 "} -> <<1, 0>>
      [] text = "p2" -> <<0, 1>>
      [] text = "p3" -> <<3, 4>>
      [] text = "art" -> <<0, 1>>
      [] text = "sh" -> <<4, 3>>
      [] OTHER -> <<0, 0>>

Queries == {"q1", "q2"}

EmbedQuery(query) == IF query = "q1" THEN <<1, 0>> ELSE <<4, 3>>

EncodeAll(texts) == [i \in 1..Len(texts) |-> Embed(texts[i])]

Dot(u, v) == u[1] * v[1] + u[2] * v[2]

\* np.linalg.norm, on vectors whose norm is an integer
Norm(v) == CHOOSE n \in 0..5 : n * n = Dot(v, v)

\* One cosine score dot / (norm * norm + 1e-9), kept as the pair <<dot, norm * norm>>.
CosineScore(e, q) == <<Dot(e, q), Norm(e) * Norm(q)>>

\* n1 / (d1 + eps) < n2 / (d2 + eps) for integers and 0 < eps with eps * |n1 - n2| < 1
ScoreLess(a, b) ==
    LET cross == a[1] * b[2] - b[1] * a[2]
    IN  cross < 0 \/ (cross = 0 /\ a[1] < b[1])

\* scores = np.dot(embeddings, query_embedding) / (norms + 1e-9)
Scores(embeddings, query_embedding) ==
    [i \in 1..Len(embeddings) |-> CosineScore(embeddings[i], query_embedding)]

\* np.argsort(scores): the indices in ascending order of score.  The default
\* sort is not stable: equal scores come in any order.
RECURSIVE ArgsortOf(_, _)
ArgsortOf(scores, indices) ==
    IF indices = {}
    THEN {<<>>}
    ELSE UNION {{<<i>> \o rest : rest \in ArgsortOf(scores, indices \ {i})} :
                  i \in {m \in indices :
                            \A j \in indices : ~ScoreLess(scores[j], scores[m])}}

Argsort(scores) == ArgsortOf(scores, 1..Len(scores))

Reverse(seq) == [i \in 1..Len(seq) |-> seq[Len(seq) + 1 - i]]

\* seq[-k:]; seq[-0:] is the whole of seq.
LastK(seq, k) ==
    IF k = 0 \/ k >= Len(seq) THEN seq ELSE SubSeq(seq, Len(seq) - k + 1, Len(seq))

\* top_indices = np.argsort(scores)[-k:][::-1], `sorted` being the argsort
TopIndices(sorted, k) == Reverse(LastK(sorted, k))

\* SimpleRetriever(documents, embeddings).retrieve(query_embedding, k) with the
\* argsort `sorted`: (results, result_scores), and the indices chosen.  An
\* index beyond the documents raises IndexError, which the method answers
\* with ([], []).
SimpleRetrieve(docs, embeddings, query_embedding, k, sorted) ==
    LET scores == Scores(embeddings, query_embedding)
        top == TopIndices(sorted, k)
    IN  IF \E i \in 1..Len(top) : top[i] > Len(docs)
        THEN [results |-> <<>>, scores |-> <<>>, indices |-> <<>>]
        ELSE [results |-> [i \in 1..Len(top) |-> docs[top[i]]],
              scores |-> [i \in 1..Len(top) |-> scores[top[i]]],
              indices |-> top]

NoTensor == [t |-> "None", rows |-> <<>>]
Tensor(rows) == [t |-> "tensor", rows |-> rows]

\* What a retriever call or a handler gave back.
\*   kind    "ok", or "raise" when an exception left the call
\*   answer  of /ask: "no_documents", "no_relevant", "llm", "error"
\*   status  the HTTP status of /upload
ROutcome(op, kind, answer, results, scores, indices, scorer, llm, status, query, k) ==
    [op |-> op, kind |-> kind, answer |-> answer, results |-> results,
     scores |-> scores, indices |-> indices, scorer_called |-> scorer,
     llm_called |-> llm, status |-> status, query |-> query, k |-> k]

NoROutcome == ROutcome("none", "ok", "", <<>>, <<>>, <<>>, FALSE, FALSE, 0, "", 0)

RetrieverInit ==
    /\ documents = <<>>
    /\ document_embeddings = NoTensor
    /\ db = <<>>
    /\ temp_file = FALSE
    /\ lastR = NoROutcome

\* A faulty variant: the guard looks at the documents only.
NoCorpusDocumentsOnly(docs, embeddings) == docs = <<>>

\* `not documents or document_embeddings is None`
NoCorpus(docs, embeddings) == docs = <<>> \/ embeddings = NoTensor

\* The sequences of at most n elements of S.
SeqsUpTo(S, n) == UNION {[1..m -> S] : m \in 0..n}

\* [chunk.strip() for chunk in chunks if chunk.strip()]
RECURSIVE Cleaned(_)
Cleaned(chunks) ==
    IF chunks = <<>> THEN <<>>
    ELSE IF Strip(Head(chunks)) # ""
         THEN <<Strip(Head(chunks))>> \o Cleaned(Tail(chunks))
         ELSE Cleaned(Tail(chunks))

\* DocumentRetriever.add_documents(chunks); encode_ok says whether
\* embedding_model.encode returns or raises.
add_documents(chunks, encode_ok) ==
    /\ IF chunks = <<>>
       THEN /\ UNCHANGED <<documents, document_embeddings>>
            /\ lastR' = ROutcome("add_documents", "ok", "", <<>>, <<>>, <<>>,
                                 FALSE, FALSE, 0, "", 0)
       ELSE /\ documents' = Cleaned(chunks)
            /\ IF Cleaned(chunks) = <<>>
               THEN /\ document_embeddings' = document_embeddings
                    /\ lastR' = ROutcome("add_documents", "ok", "", <<>>, <<>>, <<>>,
                                         FALSE, FALSE, 0, "", 0)
               ELSE IF encode_ok
                    THEN /\ document_embeddings' = Tensor(EncodeAll(Cleaned(chunks)))
                         /\ lastR' = ROutcome("add_documents", "ok", "", <<>>, <<>>,
                                              <<>>, FALSE, FALSE, 0, "", 0)
                    ELSE /\ document_embeddings' = document_embeddings
                         /\ lastR' = ROutcome("add_documents", "raise", "", <<>>, <<>>,
                                              <<>>, FALSE, FALSE, 0, "", 0)
    /\ UNCHANGED <<db, temp_file>>
    /\ UNCHANGED chatVars

\* The /upload handler, lines 118-189.  It has no await: it runs in one step.
\* Every exception raised in its try block, the HTTPExceptions with status
\* 400 among them, reaches `except Exception` and leaves as status 500.
UploadOutcome(status) ==
    ROutcome("upload", IF status = 200 THEN "ok" ELSE "raise", "", <<>>, <<>>, <<>>,
             FALSE, FALSE, status, "", 0)

upload(file, fault) ==
    LET chunks == SelectSeq(file.raw_chunks, is_text_chunk)
        \* for text, emb in zip(chunks, embeddings): stops at the shorter
        zipped == IF fault = "short" THEN SubSeq(chunks, 1, Len(chunks) - 1) ELSE chunks
        rows == db \o zipped
    IN  /\ Len(rows) <= MaxRows
        /\ temp_file' = FALSE
        /\ IF file.ocr # "text" \/ chunks = <<>> \/ fault \in {"encode", "db"}
           THEN /\ UNCHANGED <<documents, document_embeddings, db>>
                /\ lastR' = UploadOutcome(500)
           ELSE /\ db' = rows
                /\ documents' = rows
                /\ IF fault = "reload"
                   THEN /\ document_embeddings' = document_embeddings
                        /\ lastR' = UploadOutcome(500)
                   ELSE /\ document_embeddings' = Tensor(EncodeAll(rows))
                        /\ lastR' = UploadOutcome(200)
        /\ UNCHANGED chatVars

\* DocumentRetriever.retrieve, lines 82-145.  outcome is what its
\* collaborators do: the query encoder raises ("encode_raise"), the external
\* HybridRetriever.hybrid_retrieve raises ("raise"), answers with a dict
\* without documents and scores ("bad_format"), or answers with n chunks
\* ranked by the semantic retriever it was handed ("documents").  Every
\* exception is caught and answered with [].  top_k is never handed on.
RetrieveOutcomes == {"encode_raise", "raise", "bad_format", "documents"}

retrieve(query, top_k, outcome, n, sorted) ==
    /\ IF NoCorpus(documents, document_embeddings)
       THEN lastR' = ROutcome("retrieve", "ok", "", <<>>, <<>>, <<>>, FALSE, FALSE,
                              0, query, top_k)
       ELSE IF outcome # "documents"
            THEN lastR' = ROutcome("retrieve", "ok", "", <<>>, <<>>, <<>>,
                                   outcome # "encode_raise", FALSE, 0, query, top_k)
            ELSE /\ n \in 1..Len(documents)
                 /\ sorted \in Argsort(Scores(document_embeddings.rows,
                                              EmbedQuery(query)))
                 /\ LET r == SimpleRetrieve(documents, document_embeddings.rows,
                                            EmbedQuery(query), n, sorted)
                    IN  lastR' = ROutcome("retrieve", "ok", "", r.results, r.scores,
                                          r.indices, TRUE, FALSE, 0, query, top_k)
    /\ UNCHANGED <<documents, document_embeddings, db, temp_file>>
    /\ UNCHANGED chatVars

\* SimpleRetriever(documents, document_embeddings.cpu().numpy())
\*    .retrieve(query_embedding, k), as /ask and retrieve build and call it.
simple_retrieve(query, k, sorted) ==
    /\ document_embeddings # NoTensor
    /\ sorted \in Argsort(Scores(document_embeddings.rows, EmbedQuery(query)))
    /\ LET r == SimpleRetrieve(documents, document_embeddings.rows,
                               EmbedQuery(query), k, sorted)
       IN  lastR' = ROutcome("simple_retrieve", "ok", "", r.results, r.scores,
                             r.indices, TRUE, FALSE, 0, query, k)
    /\ UNCHANGED <<documents, document_embeddings, db, temp_file>>
    /\ UNCHANGED chatVars

AskOutcome(answer, r, scorer_called, llm_called, query) ==
    ROutcome("ask", "ok", answer, r.results, r.scores, r.indices, scorer_called,
             llm_called, 200, query, 3)

NoResults == [results |-> <<>>, scores |-> <<>>, indices |-> <<>>]

\* A faulty variant: nothing is filtered out.
FilteredNothing(r) == r

\* The elements of a retrieval that pass is_text_chunk, in their order.
Filtered(r) ==
    LET keep == SelectSeq([i \in 1..Len(r.results) |-> i],
                          LAMBDA i : is_text_chunk(r.results[i]))
    IN  [results |-> [i \in 1..Len(keep) |-> r.results[keep[i]]],
         scores |-> [i \in 1..Len(keep) |-> r.scores[keep[i]]],
         indices |-> [i \in 1..Len(keep) |-> r.indices[keep[i]]]]

\* The /ask handler, lines 192-238.  It has no await: it runs in one step.
ask_question(query, encode_ok, sorted) ==
    /\ IF NoCorpus(documents, document_embeddings)
       THEN lastR' = AskOutcome("no_documents", NoResults, FALSE, FALSE, query)
       ELSE IF document_embeddings = NoTensor \/ ~encode_ok
            THEN lastR' = AskOutcome("error", NoResults, FALSE, FALSE, query)
            ELSE /\ sorted \in Argsort(Scores(document_embeddings.rows,
                                              EmbedQuery(query)))
                 /\ LET r == Filtered(SimpleRetrieve(documents,
                                 document_embeddings.rows, EmbedQuery(query), 3, sorted))
                    IN  lastR' = IF r.results = <<>>
                                 THEN AskOutcome("no_relevant", r, TRUE, FALSE, query)
                                 ELSE AskOutcome("llm", r, TRUE, TRUE, query)
    /\ UNCHANGED <<documents, document_embeddings, db, temp_file>>
    /\ UNCHANGED chatVars

Init == ChatInit /\ RetrieverInit

(***************************************************************************)
(* The calls a client makes and the steps the event loop resumes.          *)
(***************************************************************************)
AddCall == \E s \in Sessions, in \in AddInputs, t \in ClockAfter(now) : add_message(s, in, t)
GetCall == \E s \in Sessions : get_messages_call(s)
StatsCall == \E s \in Sessions : get_session_stats(s)
ClearCall == \E s \in Sessions : clear_session(s)
Corruption == \E s \in Sessions, k \in CorruptKinds : CorruptRecord(s, k)

AddRead == \E c \in calls : add_message_read(c)
AddOpen == \E c \in calls : add_message_open(c)
AddWrite == \E c \in calls : add_message_write(c)
GetRead == \E c \in calls : get_messages_read(c)
StatsRead == \E c \in calls : get_session_stats_read(c)

Idle == calls = {}

(***************************************************************************)
(* Concurrent add_message calls alone: the coroutines of several requests  *)
(* interleaved at their awaits, nothing else touching the store.           *)
(***************************************************************************)
NextConcurrent ==
    \/ AddCall
    \/ AddRead
    \/ AddOpen
    \/ AddWrite

SpecConcurrent == Init /\ [][NextConcurrent]_vars

(***************************************************************************)
(* ChatHistory with its calls executed one after another: a call starts    *)
(* only when no coroutine is suspended.                                    *)
(***************************************************************************)
NextSerial ==
    \/ Idle /\ AddCall
    \/ Idle /\ GetCall
    \/ Idle /\ StatsCall
    \/ Idle /\ ClearCall
    \/ AddRead
    \/ AddOpen
    \/ AddWrite
    \/ GetRead
    \/ StatsRead

SpecSerial == Init /\ [][NextSerial]_vars

(***************************************************************************)
(* Serialized calls with a record replaced from outside between two calls. *)
(***************************************************************************)
NextCorrupt ==
    \/ Idle /\ AddCall
    \/ Idle /\ GetCall
    \/ Idle /\ StatsCall
    \/ Idle /\ ClearCall
    \/ Idle /\ Corruption
    \/ AddRead
    \/ AddOpen
    \/ AddWrite
    \/ GetRead
    \/ StatsRead

SpecCorrupt == Init /\ [][NextCorrupt]_vars

(***************************************************************************)
(* Serialized calls of a process that may stop at any await and restart.   *)
(***************************************************************************)
NextCrash ==
    \/ Idle /\ AddCall
    \/ Idle /\ GetCall
    \/ AddRead
    \/ AddOpen
    \/ AddWrite
    \/ GetRead
    \/ Crash

SpecCrash == Init /\ [][NextCrash]_vars

(***************************************************************************)
(* Calls serialized within a session and concurrent across sessions: a     *)
(* call on a session starts only when no coroutine of that session is      *)
(* suspended.                                                              *)
(***************************************************************************)
Quiet(session_id) == \A c \in calls : c.sid # session_id

AddCallQuiet ==
    \E session_id \in Sessions, in \in AddInputs, utcnow \in ClockAfter(now) :
        Quiet(session_id) /\ add_message(session_id, in, utcnow)

ClearCallQuiet ==
    \E session_id \in Sessions : Quiet(session_id) /\ clear_session(session_id)

NextSessions ==
    \/ AddCallQuiet
    \/ ClearCallQuiet
    \/ AddRead
    \/ AddOpen
    \/ AddWrite

SpecSessions == Init /\ [][NextSessions]_vars

(***************************************************************************)
(* Serialized calls with no clear_session and no outside corruption: the   *)
(* sessions only grow.                                                     *)
(***************************************************************************)
NextAppend ==
    \/ Idle /\ AddCall
    \/ Idle /\ GetCall
    \/ Idle /\ StatsCall
    \/ AddRead
    \/ AddOpen
    \/ AddWrite
    \/ GetRead
    \/ StatsRead

SpecAppend == Init /\ [][NextAppend]_vars

(***************************************************************************)
(* The retriever and the two handlers.  The handlers run on one event loop *)
(* and hold no await, so each is one step.                                 *)
(***************************************************************************)
AddDocumentsCall ==
    \E chunks \in AddDocumentsInputs, encode_ok \in BOOLEAN :
        add_documents(chunks, encode_ok)

UploadCall == \E file \in Uploads, fault \in Faults : upload(file, fault)

RetrieveCall ==
    \E query \in Queries :
        IF NoCorpus(documents, document_embeddings)
        THEN \E top_k \in 1..MaxK : retrieve(query, top_k, "documents", 1, <<>>)
        ELSE \E top_k \in {1, MaxK}, outcome \in RetrieveOutcomes :
                IF outcome = "documents"
                THEN \E n \in 1..Len(documents) :
                        \E sorted \in Argsort(Scores(document_embeddings.rows,
                                                     EmbedQuery(query))) :
                            retrieve(query, top_k, outcome, n, sorted)
                ELSE retrieve(query, top_k, outcome, 1, <<>>)

AskCall ==
    \E query \in Queries, encode_ok \in BOOLEAN :
        \E sorted \in (IF encode_ok /\ ~NoCorpus(documents, document_embeddings)
                       THEN Argsort(Scores(document_embeddings.rows, EmbedQuery(query)))
                       ELSE {<<>>}) :
            ask_question(query, encode_ok, sorted)

SimpleRetrieveCall ==
    \E query \in Queries, k \in 1..MaxK :
        /\ document_embeddings # NoTensor
        /\ \E sorted \in Argsort(Scores(document_embeddings.rows, EmbedQuery(query))) :
              simple_retrieve(query, k, sorted)

NextRetriever ==
    \/ AddDocumentsCall
    \/ UploadCall
    \/ RetrieveCall
    \/ AskCall

SpecRetriever == Init /\ [][NextRetriever]_vars

(***************************************************************************)
(* The scorer on every corpus of at most MaxChunks chunks.                 *)
(***************************************************************************)
ScorerTexts == {"p1", "p2", "p3", "art", "  "}

AnyCorpus ==
    \E chunks \in SeqsUpTo(ScorerTexts, MaxChunks) : add_documents(chunks, TRUE)

NextScorer ==
    \/ AnyCorpus
    \/ SimpleRetrieveCall

SpecScorer == Init /\ [][NextScorer]_vars

(***************************************************************************)
(* Claims about ChatHistory.                                               *)
(***************************************************************************)
Path(s) == get_session_path(s)

Stored(s) == get_messages(s)

\* C1: append-only law.  After any number of serialized add_message calls on
\* sessions that started absent, with no clear_session, get_messages returns
\* exactly the messages those calls returned, in call order: each call adds
\* one element at the end and leaves the earlier ones as they were.
C1_AppendOnly ==
    Idle => \A s \in Sessions : Stored(s) = ListResult(returned[s])

C1_ThreeAppended ==
    /\ Idle
    /\ Len(returned["s1"]) = 3
    /\ Stored("s1") = ListResult(returned["s1"])
    /\ \A i \in 1..3 : returned["s1"][i].id = i

\* C2: add_message calls on one session are serialized: once every
\* concurrent call has returned, the persisted history holds every message
\* that was returned.
C2_NoLostMessage ==
    Idle => \A s \in Sessions :
               \A i \in 1..Len(returned[s]) :
                  \E j \in 1..Len(Stored(s).msgs) : Stored(s).msgs[j] = returned[s][i]

\* C3: get_messages never raises for an absent or corrupt session: when the
\* record is absent or is not a serialized message list, get_messages returns
\* the empty sequence.
C3_ReadNeverRaises ==
    (last.op = "get_messages" /\ files[Path(last.sid)].kind # "messages")
        => (last.kind = "ok" /\ last.msgs = <<>>)

\* C4: clear idempotence.  clear_session returns true exactly when the record
\* existed at the call and leaves the session absent; a clear_session right
\* after a clear_session of the same session returns false; on a session with
\* no record it returns false and changes nothing.
C4_ClearIdempotent ==
    [][\A s \in Sessions :
          clear_session(s) =>
             /\ last'.op = "clear_session" /\ last'.sid = s
             /\ last'.flag = (files[Path(s)] # NoFile)
             /\ files'[Path(s)] = NoFile
             /\ \A t \in Sessions \ {s} : files'[Path(t)] = files[Path(t)]
             /\ (last.op = "clear_session" /\ last.sid = s) => ~last'.flag
             /\ (files[Path(s)] = NoFile) => (files' = files /\ calls' = calls)]_vars

C4_SecondClearFalse ==
    /\ last.op = "clear_session"
    /\ ~last.flag
    /\ epoch[last.sid] > 0

StatsMatch(st, msgs) ==
    /\ st.total_messages = Len(msgs)
    /\ st.user_messages = Cardinality({i \in 1..Len(msgs) : msgs[i].role = "user"})
    /\ st.assistant_messages =
          Cardinality({i \in 1..Len(msgs) : msgs[i].role = "assistant"})
    /\ (\A i \in 1..Len(msgs) : msgs[i].role \in {"user", "assistant"})
          => st.user_messages + st.assistant_messages = st.total_messages
    /\ st.has_document_context =
          (\E i \in 1..Len(msgs) : msgs[i].document_context.v # {})
    /\ st.last_message_at =
          (IF Len(msgs) = 0 THEN <<>> ELSE <<msgs[Len(msgs)].timestamp>>)

C6_StatsDerived ==
    /\ []((last.op = "get_session_stats" /\ last.kind = "ok") =>
             /\ Stored(last.sid).kind = "list"
             /\ StatsMatch(last.stats, Stored(last.sid).msgs))
    /\ [][(StatsCall \/ StatsRead) => files' = files]_vars

C6_HelloHiThere ==
    /\ last.op = "get_session_stats" /\ last.kind = "ok" /\ last.sid = "s1"
    /\ Len(Stored("s1").msgs) = 2
    /\ Stored("s1").msgs[1].content = "hello" /\ Stored("s1").msgs[1].role = "user"
    /\ Stored("s1").msgs[2].content = "hi there"
    /\ last.stats = [total_messages |-> 2, user_messages |-> 1,
                     assistant_messages |-> 1, has_document_context |-> FALSE,
                     last_message_at |-> <<Stored("s1").msgs[2].timestamp>>]

\* C7: session lifecycle.  A session has a record exactly when it holds at
\* least one message; the add_message that returns takes the session from
\* its n messages to n+1 (from absent to one); clear_session takes it to
\* absent, where get_messages returns the empty sequence, and the next
\* add_message yields one message.
C7_Lifecycle ==
    /\ [](Idle => \A s \in Sessions :
                    /\ Stored(s).kind = "list"
                    /\ exists(Path(s)) <=> Stored(s).msgs # <<>>
                    /\ Len(Stored(s).msgs) = Len(returned[s]))
    /\ [][\A s \in Sessions :
             /\ clear_session(s) =>
                   (files'[Path(s)] = NoFile /\ ReadAndParse(files'[Path(s)]) = ListResult(<<>>))
             /\ (\E c \in calls : c.sid = s /\ add_message_write(c)) =>
                   /\ files'[Path(s)] # NoFile
                   /\ Len(ReadAndParse(files'[Path(s)]).msgs) = Len(returned[s]) + 1
                   /\ (epoch[s] > 0 /\ returned[s] = <<>>) =>
                         ReadAndParse(files'[Path(s)]).msgs = <<last'.msg>>]_vars

C7_OneAfterClear ==
    /\ last.op = "add_message" /\ last.kind = "ok"
    /\ epoch[last.sid] > 0
    /\ Stored(last.sid).msgs = <<last.msg>>
    /\ last.msg.id = 3

(***************************************************************************)
(* Claims about the retriever and the handlers.                            *)
(***************************************************************************)

\* C8: while no documents have been ingested (documents empty or the
\* embeddings unset), retrieve answers with the empty sequence without
\* raising, for every query and every top_k, and /ask reports "no documents"
\* without calling the scorer or the LLM.
C8_EmptyCorpus ==
    [][(documents = <<>> \/ document_embeddings = NoTensor) =>
          /\ lastR'.op = "retrieve" =>
                /\ lastR'.kind = "ok"
                /\ lastR'.results = <<>>
                /\ ~lastR'.scorer_called
                /\ ~lastR'.llm_called
          /\ lastR'.op = "ask" =>
                /\ lastR'.answer = "no_documents"
                /\ ~lastR'.scorer_called
                /\ ~lastR'.llm_called]_vars

\* /ask has answered "no documents" while documents were stored but the
\* embeddings were unset.
C8_AskedWithoutEmbeddings ==
    /\ lastR.op = "ask"
    /\ lastR.answer = "no_documents"
    /\ documents # <<>>
    /\ document_embeddings = NoTensor

ScoreEq(a, b) == ~ScoreLess(a, b) /\ ~ScoreLess(b, a)

\* C9: on a corpus of N chunks and for k >= 1, SimpleRetriever.retrieve
\* returns min(k, N) chunks, the k highest-scoring ones, in descending order
\* of score, and two returned chunks of identical score appear in ascending
\* original-index order.
C9_TopKOrdering ==
    (lastR.op = "simple_retrieve" /\ Len(documents) = Len(document_embeddings.rows)) =>
        LET N == Len(documents)
            idx == lastR.indices
            sc == Scores(document_embeddings.rows, EmbedQuery(lastR.query))
        IN  /\ Len(idx) = (IF lastR.k < N THEN lastR.k ELSE N)
            /\ Len(lastR.results) = Len(idx)
            /\ \A i \in 1..Len(idx) :
                  /\ idx[i] \in 1..N
                  /\ lastR.results[i] = documents[idx[i]]
                  /\ lastR.scores[i] = sc[idx[i]]
            /\ \A i, j \in 1..Len(idx) : i # j => idx[i] # idx[j]
            /\ \A i \in 1..Len(idx) :
                  \A m \in 1..N :
                     (\A j \in 1..Len(idx) : idx[j] # m) => ~ScoreLess(sc[idx[i]], sc[m])
            /\ \A i, j \in 1..Len(idx) : i < j => ~ScoreLess(sc[idx[i]], sc[idx[j]])
            /\ \A i, j \in 1..Len(idx) :
                  (i < j /\ ScoreEq(sc[idx[i]], sc[idx[j]])) => idx[i] < idx[j]

\* C10: in every reachable state, the state a failed ingest leaves behind
\* included, the stored documents and the stored embeddings belong to the
\* same ingest and have the same number of entries.
C10_CorpusAtomic ==
    IF document_embeddings = NoTensor
    THEN documents = <<>>
    ELSE /\ Len(document_embeddings.rows) = Len(documents)
         /\ document_embeddings.rows = EncodeAll(documents)

\* C11: an ingest whose chunks and embeddings differ in number is rejected
\* with an error surfaced to the caller, stores no chunk of that ingest and
\* leaves the previously active corpus unchanged.
C11_MismatchRejected ==
    [][\A file \in Uploads :
          (/\ upload(file, "short")
           /\ file.ocr = "text"
           /\ SelectSeq(file.raw_chunks, is_text_chunk) # <<>>) =>
              /\ lastR'.kind = "raise"
              /\ lastR'.status # 200
              /\ db' = db
              /\ documents' = documents
              /\ document_embeddings' = document_embeddings]_vars

\* Prose: text that is neither a serialization artifact nor too short.
Prose(chunk) == chunk \notin {"art", "sh", "  "}

\* C12: every chunk that reaches the LLM context passed the non-prose
\* denylist; the surviving chunks keep their ranked order and the score
\* reported is that of the first surviving chunk; when the filter removes
\* every retrieved chunk the answer is "no relevant information", which is
\* given only for a non-empty corpus, and the LLM is not called.
C12_PostRankingFilter ==
    lastR.op = "ask" =>
        LET sc == Scores(document_embeddings.rows, EmbedQuery(lastR.query))
            idx == lastR.indices
        IN  /\ lastR.llm_called <=> lastR.answer = "llm"
            /\ lastR.answer = "llm" =>
                  /\ lastR.results # <<>>
                  /\ \A i \in 1..Len(idx) :
                        /\ Prose(lastR.results[i])
                        /\ lastR.results[i] = documents[idx[i]]
                        /\ lastR.scores[i] = sc[idx[i]]
                  /\ \E sorted \in Argsort(sc) :
                        LET top == TopIndices(sorted, 3)
                            pos(x) == CHOOSE m \in 1..Len(top) : top[m] = x
                        IN  /\ \A m \in 1..Len(top) : top[m] \in 1..Len(documents)
                            /\ \A i \in 1..Len(idx) : \E m \in 1..Len(top) : top[m] = idx[i]
                            /\ \A i, j \in 1..Len(idx) : i < j => pos(idx[i]) < pos(idx[j])
                            /\ \A m \in 1..Len(top) :
                                  Prose(documents[top[m]]) =>
                                     \E i \in 1..Len(idx) : idx[i] = top[m]
            /\ lastR.answer = "no_relevant" =>
                  /\ lastR.results = <<>>
                  /\ lastR.scorer_called
                  /\ documents # <<>>
                  /\ document_embeddings # NoTensor
            /\ lastR.answer = "no_documents" =>
                  (documents = <<>> \/ document_embeddings = NoTensor)

\* /ask has handed two prose chunks to the LLM after dropping an artifact
\* that was retrieved with them.
C12_ArtifactDropped ==
    /\ lastR.op = "ask"
    /\ lastR.answer = "llm"
    /\ documents = <<"p2", "art", "p3">>
    /\ Len(document_embeddings.rows) = 3
    /\ lastR.results = <<"p3", "p2">>

\* C13: after a successful upload the active corpus held by the retriever
\* consists of exactly the chunks of that upload, with no chunk of an
\* earlier document remaining.
C13_ReplacedWholesale ==
    [][\A file \in Uploads :
          (upload(file, "none") /\ lastR'.status = 200) =>
              documents' = SelectSeq(file.raw_chunks, is_text_chunk)]_vars

\* C14: if the process stops at any point during an add_message on a
\* session that holds N messages, get_messages after the restart returns
\* the N old messages or the N+1 new ones, never fewer than N.
C14_CrashSafe ==
    Idle =>
        \A s \in Sessions :
            /\ Stored(s).kind = "list"
            /\ Len(Stored(s).msgs) \in {Len(returned[s]), Len(returned[s]) + 1}
            /\ \A i \in 1..Len(returned[s]) : Stored(s).msgs[i] = returned[s][i]

\* C15: for every corpus and every top_k >= 1, DocumentRetriever.retrieve
\* returns at most top_k results, sorted by descending score.
C15_TruncatedToTopK ==
    lastR.op = "retrieve" =>
        /\ Len(lastR.results) <= lastR.k
        /\ \A i, j \in 1..Len(lastR.scores) :
              i < j => ~ScoreLess(lastR.scores[i], lastR.scores[j])

\* C16: in every reachable state, after any interleaving of concurrent
\* add_message calls on a session, a message that appears later in
\* get_messages has a timestamp not earlier than every message before it.
C16_OrderedByCreation ==
    \A s \in Sessions :
        Stored(s).kind = "list" =>
            \A i, j \in 1..Len(Stored(s).msgs) :
                i < j => Stored(s).msgs[i].timestamp <= Stored(s).msgs[j].timestamp

\* C17: add_message and clear_session on one session leave the stored
\* history of every other session unchanged, and with concurrent
\* add_message calls on two different sessions each session ends with
\* exactly its own messages, none lost and none from the other session.
C17_SessionsIndependent ==
    /\ [](\A s \in Sessions : Quiet(s) => Stored(s) = ListResult(returned[s]))
    /\ [][\A s \in Sessions :
            (\/ clear_session(s)
             \/ \E in \in AddInputs, utcnow \in ClockAfter(now) : add_message(s, in, utcnow)
             \/ \E c \in calls :
                   /\ c.sid = s
                   /\ (add_message_read(c) \/ add_message_open(c) \/ add_message_write(c)))
            => \A b \in Sessions \ {s} :
                  /\ ReadAndParse(files'[Path(b)]) = ReadAndParse(files[Path(b)])
                  /\ exists(Path(b))' = exists(Path(b))
                  /\ returned'[b] = returned[b]]_vars

\* A call on each of the two sessions is suspended between opening its
\* record and writing it, while s1 already has a returned message.
C17_TwoWritersInFlight ==
    /\ \E c1, c2 \in calls :
          /\ c1.sid = "s1" /\ c1.pc = "write"
          /\ c2.sid = "s2" /\ c2.pc = "write"
    /\ returned["s1"] # <<>>

\* C18: add_message on a session whose record is corrupt succeeds: the
\* corrupt content is read as an empty history, and after the call
\* get_messages returns exactly the new message, nothing of the previous
\* content being kept.
C18_CorruptOverwritten ==
    [][\A c \in calls :
          /\ (add_message_read(c) /\ files[Path(c.sid)].kind \in CorruptKinds) =>
                /\ last'.kind # "raise"
                /\ \E d \in calls' :
                      d.sid = c.sid /\ d.pc = "open_w" /\ d.messages = <<c.message>>
          /\ (add_message_write(c) /\ c.messages = <<c.message>>) =>
                /\ last'.kind = "ok"
                /\ last'.msg = c.message
                /\ ReadAndParse(files'[Path(c.sid)]) = ListResult(<<c.message>>)]_vars

\* C19: /upload keeps the status code of the error it detects: 400 when OCR
\* yields no text or no chunk survives the text filter, 500 when OCR or the
\* database commit fails; on every path the temporary upload file no longer
\* exists when the handler finishes.
C19_UploadStatus ==
    [][\A file \in Uploads, fault \in Faults :
          upload(file, fault) =>
              LET chunks == SelectSeq(file.raw_chunks, is_text_chunk)
              IN  /\ lastR'.op = "upload"
                  /\ ~temp_file'
                  /\ file.ocr = "blank" => lastR'.status = 400
                  /\ (file.ocr = "text" /\ chunks = <<>>) => lastR'.status = 400
                  /\ file.ocr = "fail" => lastR'.status = 500
                  /\ (file.ocr = "text" /\ chunks # <<>> /\ fault = "db") =>
                        lastR'.status = 500]_vars

====
